---- MODULE Spec2Model ----
(***************************************************************************)
(* Model of pycroscopy/core/io/translator.py: the coordinate-matrix        *)
(* builder make_position_mat, the region slicers, the axis-dataset builder *)
(* build_ind_val_dsets and the container assembler Translator.simple_write.*)
(*                                                                         *)
(* numpy arrays are functions over 0-based index ranges: a vector is       *)
(* [0..n-1 -> Int], a matrix is [0..rows-1 -> [0..cols-1 -> Int]].  Python *)
(* lists handed in by the caller are sequences (1-based); the list element *)
(* with Python index i is s[i+1].  float32 values are integer-valued in    *)
(* the inputs drawn here, so the arithmetic on them is exact.              *)
(***************************************************************************)
EXTENDS Integers, Sequences, FiniteSets, TLC

VARIABLES
    num_steps, pos_mat,                                   \* make_position_mat: argument, return value
    dimensions, steps, initial_values, labels, units,     \* build_ind_val_dsets: arguments
    ds_pos, ds_spec,                                      \* its outcome with is_spectral False / True
    fs, pc, calls, spm_data, aux_dset_names, hdf,         \* simple_write: file system, position, locals
    h5_refs, err, log, prior, stamp,
    aux_dset_list, parm_dict                              \* simple_write: arguments

vars == <<num_steps, pos_mat, dimensions, steps, initial_values, labels, units,
          ds_pos, ds_spec, fs, pc, calls, spm_data, aux_dset_names, hdf,
          h5_refs, err, log, prior, stamp, aux_dset_list, parm_dict>>

matVars == <<num_steps, pos_mat>>
buildVars == <<dimensions, steps, initial_values, labels, units, ds_pos, ds_spec>>
writeVars == <<fs, pc, calls, spm_data, aux_dset_names, hdf, h5_refs, err, log,
               prior, stamp, aux_dset_list, parm_dict>>

(***************************************************************************)
(* Bounds of the model.                                                    *)
(***************************************************************************)
MatMaxDims == 3
MatMaxSize == 4
MaxDims == 3
MaxSize == 2
MaxAux == 2
MaxCalls == 2

\* Sequences over S of length lo..hi.
SeqsOf(S, lo, hi) == UNION {[1..n -> S] : n \in lo..hi}

\* An optional argument: Python None, or a supplied value.
None == [given |-> FALSE, val |-> <<>>]
Some(v) == [given |-> TRUE, val |-> v]

(***************************************************************************)
(* numpy primitives used by the module.                                    *)
(***************************************************************************)
\* np.prod(a[:k]): the product of the first k entries (1 for k = 0).
RECURSIVE ProdPrefix(_, _)
ProdPrefix(a, k) == IF k = 0 THEN 1 ELSE a[k] * ProdPrefix(a, k - 1)

\* np.prod(a[k:]): the product of the entries after the first k (1 when none).
RECURSIVE ProdSuffix(_, _)
ProdSuffix(a, k) == IF k >= Len(a) THEN 1 ELSE a[k + 1] * ProdSuffix(a, k + 1)

\* np.prod(a)
Prod(a) == ProdPrefix(a, Len(a))

\* np.arange(n)
Arange(n) == [i \in 0..(n - 1) |-> i]

\* len of a vector
VLen(v) == Cardinality(DOMAIN v)

\* np.floor(v / d), elementwise, for non-negative v and positive d
FloorDivide(v, d) == [i \in DOMAIN v |-> v[i] \div d]

\* np.tile(v, reps): reps copies of v laid end to end
Tile(v, reps) == [r \in 0..(VLen(v) * reps - 1) |-> v[r % VLen(v)]]

\* np.zeros(shape=(rows, cols))
Zeros(rows, cols) == [r \in 0..(rows - 1) |-> [c \in 0..(cols - 1) |-> 0]]

NRows(m) == Cardinality(DOMAIN m)
NCols(m) == Cardinality(DOMAIN m[0])
Shape(m) == <<NRows(m), NCols(m)>>

\* m[:, c] = col  (numpy requires the lengths to agree)
SetColumn(m, c, col) == [r \in DOMAIN m |-> [m[r] EXCEPT ![c] = col[r]]]

\* m.transpose()
Transpose(m) == [c \in 0..(NCols(m) - 1) |-> [r \in 0..(NRows(m) - 1) |-> m[r][c]]]

(***************************************************************************)
(* make_position_mat                                                       *)
(***************************************************************************)
\* len(np.where(num_steps > 1)[0])
NumActive(ns) == Cardinality({i \in 1..Len(ns) : ns[i] > 1})

SpatDims(ns) == IF NumActive(ns) > 1 THEN NumActive(ns) ELSE 1

\* part1 = np.prod(num_steps[:indx+1])
Part1(ns, indx) == ProdPrefix(ns, indx + 1)

Part2_swapped(ns, indx) == IF indx > 0 THEN ns[indx] ELSE 1
\* part2 = np.prod(num_steps[:indx]) if indx > 0 else 1
Part2(ns, indx) == IF indx > 0 THEN ProdPrefix(ns, indx) ELSE 1

\* part3 = 1 if indx+1 == len(num_steps) else np.prod(num_steps[indx+1:])
Part3(ns, indx) == IF indx + 1 = Len(ns) THEN 1 ELSE ProdSuffix(ns, indx + 1)

\* np.tile(np.floor(np.arange(part1)/part2), part3)
AxisColumn(ns, indx) ==
    Tile(FloorDivide(Arange(Part1(ns, indx)), Part2(ns, indx)), Part3(ns, indx))

\* The loop over enumerate(num_steps), from Python index indx on, carrying
\* the matrix filled so far and the next free column pos_ind.
RECURSIVE FillColumns(_, _, _, _)
FillColumns(ns, indx, mat, pos_ind) ==
    IF indx >= Len(ns) THEN mat
    ELSE IF ns[indx + 1] > 1
         THEN FillColumns(ns, indx + 1, SetColumn(mat, pos_ind, AxisColumn(ns, indx)),
                          pos_ind + 1)
         ELSE FillColumns(ns, indx + 1, mat, pos_ind)

make_position_mat(ns) == FillColumns(ns, 0, Zeros(Prod(ns), SpatDims(ns)), 0)

(***************************************************************************)
(* get_position_slicing / get_spectral_slicing                             *)
(***************************************************************************)
\* The optional bound curr_pix / curr_spec left at its default None.
NoExtent == [given |-> FALSE, val |-> 0]

\* slice(stop): slice(None) selects the whole dimension.
SliceTo(stop) ==
    IF stop.given THEN [all |-> FALSE, start |-> 0, stop |-> stop.val]
    ELSE [all |-> TRUE, start |-> 0, stop |-> 0]

\* slice(start, stop)
SliceRange(start, stop) == [all |-> FALSE, start |-> start, stop |-> stop]

\* The Python index at which the loop over enumerate(lab) last assigns
\* slice_dict[l]: a later equal label overwrites an earlier one.
LastIndex(lab, l) ==
    CHOOSE i \in 0..(Len(lab) - 1) :
        /\ lab[i + 1] = l
        /\ \A j \in (i + 1)..(Len(lab) - 1) : lab[j + 1] # l

LabelKeys(lab) == {lab[i] : i \in 1..Len(lab)}

\* (slice(curr_pix), slice(spat_ind, spat_ind+1))
PositionSlice(spat_ind, curr_pix) ==
    <<SliceTo(curr_pix), SliceRange(spat_ind, spat_ind + 1)>>

\* (slice(spat_ind, spat_ind + 1), slice(curr_spec))
SpectralSlice(spat_ind, curr_spec) ==
    <<SliceRange(spat_ind, spat_ind + 1), SliceTo(curr_spec)>>

get_position_slicing(pos_lab, curr_pix) ==
    [l \in LabelKeys(pos_lab) |-> PositionSlice(LastIndex(pos_lab, l), curr_pix)]

get_spectral_slicing(spec_lab, curr_spec) ==
    [l \in LabelKeys(spec_lab) |-> SpectralSlice(LastIndex(spec_lab, l), curr_spec)]

(***************************************************************************)
(* Applying a (row_range, column_range) pair to a matrix, as a reader of   *)
(* the 'labels' metadata does: m[row_range, column_range].                 *)
(***************************************************************************)
Min(a, b) == IF a < b THEN a ELSE b
Max(a, b) == IF a > b THEN a ELSE b

\* First selected index and number of selected indices of a slice over a
\* dimension of length n.
SliceLo(sl, n) == IF sl.all THEN 0 ELSE Min(sl.start, n)
SliceCount(sl, n) ==
    IF sl.all THEN n ELSE Max(0, Min(sl.stop, n) - Min(sl.start, n))

ApplySlices(m, pair) ==
    LET rs == pair[1]
        cs == pair[2]
        nr == NRows(m)
        nc == NCols(m)
    IN [r \in 0..(SliceCount(rs, nr) - 1) |->
          [c \in 0..(SliceCount(cs, nc) - 1) |->
              m[SliceLo(rs, nr) + r][SliceLo(cs, nc) + c]]]

(***************************************************************************)
(* build_ind_val_dsets                                                     *)
(***************************************************************************)
\* len(x) != len(dimensions) for a supplied per-axis array
StepsLenBad_unchecked(st, dims) == FALSE
StepsLenBad(st, dims) == st.given /\ Len(st.val) # Len(dims)
InitialLenBad(iv, dims) == iv.given /\ Len(iv.val) # Len(dims)
LabelsLenBad(lab, dims) == lab.given /\ Len(lab.val) # Len(dims)
UnitsLenBad(un, dims) == un.given /\ Len(un.val) # Len(dims)

\* np.atleast_2d(x): a list becomes a matrix of one row.
AtLeast2d(s) == [r \in {0} |-> [c \in 0..(Len(s) - 1) |-> s[c + 1]]]

\* steps = np.ones_like(dimensions) when None
Steps2d(st, dims) ==
    AtLeast2d(IF st.given THEN st.val ELSE [i \in 1..Len(dims) |-> 1])

\* initial_values = np.zeros_like(dimensions) when None
Initial2d(iv, dims) ==
    AtLeast2d(IF iv.given THEN iv.val ELSE [i \in 1..Len(dims) |-> 0])

\* labels = ['' for _ in dimensions] when None
LabelList(lab, dims) ==
    IF lab.given THEN lab.val ELSE [i \in 1..Len(dims) |-> ""]

\* numpy broadcasting of two extents: equal, or one of them 1.
BroadcastOK(a, b) == a = b \/ a = 1 \/ b = 1
BroadcastLen(a, b) == IF a = 1 THEN b ELSE a

\* The entry of x that numpy pairs with position i of the broadcast result.
Bc(x, i) == IF Cardinality(DOMAIN x) = 1 THEN x[0] ELSE x[i]

\* a * b and a + b on matrices, with broadcasting.
BroadcastShapesOK(a, b) ==
    BroadcastOK(NRows(a), NRows(b)) /\ BroadcastOK(NCols(a), NCols(b))

MatMul(a, b) ==
    [r \in 0..(BroadcastLen(NRows(a), NRows(b)) - 1) |->
       [c \in 0..(BroadcastLen(NCols(a), NCols(b)) - 1) |->
           Bc(Bc(a, r), c) * Bc(Bc(b, r), c)]]

MatAdd(a, b) ==
    [r \in 0..(BroadcastLen(NRows(a), NRows(b)) - 1) |->
       [c \in 0..(BroadcastLen(NCols(a), NCols(b)) - 1) |->
           Bc(Bc(a, r), c) + Bc(Bc(b, r), c)]]

\* values = initial_values + np.float32(indices)*steps can be evaluated
ValuesBroadcastOK(indices, st2d, iv2d) ==
    /\ BroadcastShapesOK(indices, st2d)
    /\ BroadcastShapesOK(MatMul(indices, st2d), iv2d)

ValuesOf(indices, st2d, iv2d) == MatAdd(iv2d, MatMul(indices, st2d))

ModeName(is_spectral) == IF is_spectral THEN "Spectroscopic_" ELSE "Position_"

\* indices.transpose() / values.transpose() in spectroscopic mode
Orient(is_spectral, m) == IF is_spectral THEN Transpose(m) ELSE m

RegionSlices(is_spectral, lab) ==
    IF is_spectral THEN get_spectral_slicing(lab, NoExtent)
    ELSE get_position_slicing(lab, NoExtent)

\* ds = MicroDataset(name, data, dtype=...); ds.attrs['labels'] = region_slices
\* (attrs holds no 'units' entry yet).
MicroDataset(name, data, dtype, region_slices) ==
    [name |-> name, data |-> data, dtype |-> dtype,
     attrs |-> [labels |-> region_slices, units |-> None]]

\* ds.attrs['units'] = units, when units is supplied
WithUnits(ds, un) == [ds EXCEPT !.attrs.units = un]

\* The call raised ValueError after building the stages in built.
Raised(kind, built) ==
    [called |-> TRUE, raised |-> kind, built |-> built]

Returned(ds_indices, ds_values) ==
    [called |-> TRUE, raised |-> "none",
     built |-> {"indices", "values", "ds_indices", "ds_values"},
     ds_indices |-> ds_indices, ds_values |-> ds_values]

build_ind_val_dsets(dims, is_spectral, st, iv, lab, un) ==
    IF StepsLenBad(st, dims) THEN Raised("steps_len", {})
    ELSE IF InitialLenBad(iv, dims) THEN Raised("initial_values_len", {})
    ELSE IF LabelsLenBad(lab, dims) THEN Raised("labels_len", {})
    ELSE
      LET st2d == Steps2d(st, dims)
          iv2d == Initial2d(iv, dims)
          labs == LabelList(lab, dims)
          indices == make_position_mat(dims)
      IN IF ~ValuesBroadcastOK(indices, st2d, iv2d)
         THEN Raised("broadcast", {"indices"})
         ELSE
           LET values == ValuesOf(indices, st2d, iv2d)
               mode == ModeName(is_spectral)
               region_slices == RegionSlices(is_spectral, labs)
               ds_indices == MicroDataset(mode \o "Indices", Orient(is_spectral, indices),
                                          "uint32", region_slices)
               ds_values == MicroDataset(mode \o "Values", Orient(is_spectral, values),
                                         "float32", region_slices)
           IN IF UnitsLenBad(un, dims)
              THEN Raised("units_len", {"indices", "values", "ds_indices", "ds_values"})
              ELSE Returned(WithUnits(ds_indices, un), WithUnits(ds_values, un))

(***************************************************************************)
(* Translator.simple_write                                                 *)
(*                                                                         *)
(* Attribute values are tagged: a string, a number, or a reference to an   *)
(* object of the file.  A dict is a function from its keys to values.  A   *)
(* file is the set of its objects (path, kind) and the set of its          *)
(* attributes (path of the owner, key, value).                             *)
(***************************************************************************)
Str(x) == [t |-> "str", s |-> x, n |-> 0, p |-> <<>>]
Num(x) == [t |-> "num", s |-> "", n |-> x, p |-> <<>>]
Ref(path) == [t |-> "ref", s |-> "", n |-> 0, p |-> path]

EmptyDict == [k \in {} |-> Str("")]

\* d[key] = value
DictSet(d, key, value) ==
    [k \in DOMAIN d \cup {key} |-> IF k = key THEN value ELSE d[k]]

\* a.update(b)
DictUpdate(a, b) ==
    [k \in DOMAIN a \cup DOMAIN b |-> IF k \in DOMAIN b THEN b[k] ELSE a[k]]

\* generate_dummy_main_parms(), the clock reading stamp.
generate_dummy_main_parms(st) ==
    [translate_date |-> Str(st.date),
     instrument |-> Str("cypher_west"),
     xcams_id |-> Str("abc"),
     user_name |-> Str("John Doe"),
     sample_name |-> Str("PZT"),
     sample_description |-> Str("Thin Film"),
     project_name |-> Str("Band Excitation"),
     project_id |-> Str("CNMS_2015B_X0000"),
     comments |-> Str("Band Excitation data"),
     data_tool |-> Str("be_analyzer"),
     experiment_date |-> Str("2015-10-05 14:55:05"),
     experiment_unix_time |-> Num(st.time),
     grid_size_x |-> Num(1),
     grid_size_y |-> Num(1),
     current_position_x |-> Num(1),
     current_position_y |-> Num(1)]

\* MicroDataGroup(name): no attributes, no children.
MicroDataGroup(name) ==
    [name |-> name, kind |-> "group", attrs |-> EmptyDict, children |-> <<>>]

\* A MicroDataset handed in by the caller (its payload plays no part here).
DatasetNode(name) ==
    [name |-> name, kind |-> "dataset", attrs |-> EmptyDict, children |-> <<>>]

\* grp.add_children(children): the children become direct children of the
\* group, in order.
add_children(grp, children) == [grp EXCEPT !.children = @ \o children]

\* isinstance(dset, MicroDataset)
IsMicroDataset(obj) == obj.kind = "dataset"

NamesOf(objs) == [i \in 1..Len(objs) |-> objs[i].name]

AuxDsetNames_butFirst(aux) ==
    IF aux = <<>> THEN <<>> ELSE NamesOf(SelectSeq(Tail(aux), IsMicroDataset))
\* aux_dset_names: the names of the MicroDataset entries of aux_dset_list
AuxDsetNames(aux) == NamesOf(SelectSeq(aux, IsMicroDataset))

\* chan_grp = MicroDataGroup('Channel_000') with ds_main and the auxiliary list
ChanGrp(main, aux) ==
    add_children(add_children(MicroDataGroup("Channel_000"), <<main>>), aux)

\* if parm_dict is None: parm_dict = {}
ParmDict(pd) == IF pd.given THEN pd.val ELSE EmptyDict

\* meas_grp = MicroDataGroup('Measurement_000'); meas_grp.attrs = parm_dict
MeasGrp(main, aux, pd) ==
    add_children([MicroDataGroup("Measurement_000") EXCEPT !.attrs = ParmDict(pd)],
                 <<ChanGrp(main, aux)>>)

GlobalParms_callerWins(data_name, translator_name, pd, st) ==
    DictUpdate(DictSet(DictSet(generate_dummy_main_parms(st), "data_type", Str(data_name)),
                       "translator", Str(translator_name)),
               ParmDict(pd))
\* global_parms = generate_dummy_main_parms() with data_type and translator set
GlobalParms(data_name, translator_name, pd, st) ==
    DictSet(DictSet(generate_dummy_main_parms(st), "data_type", Str(data_name)),
            "translator", Str(translator_name))

\* spm_data = MicroDataGroup(''); spm_data.attrs = global_parms
SpmData(data_name, translator_name, main, aux, pd, st) ==
    add_children([MicroDataGroup("") EXCEPT
                     !.attrs = GlobalParms(data_name, translator_name, pd, st)],
                 <<MeasGrp(main, aux, pd)>>)

(***************************************************************************)
(* The file system and the container writer (io_hdf5.ioHDF5, hdf_utils).   *)
(***************************************************************************)
NoFile == [exists |-> FALSE, objs |-> {}, attrs |-> {}]
EmptyFile == [exists |-> TRUE, objs |-> {[path |-> <<>>, kind |-> "group"]}, attrs |-> {}]

\* path.exists(p)
path_exists(fsys, p) == fsys[p].exists

\* remove(p)
remove(fsys, p) == [fsys EXCEPT ![p] = NoFile]

RemovePrior_skipped(fsys, p) == fsys
\* if path.exists(h5_path): remove(h5_path)
RemovePrior(fsys, p) == IF path_exists(fsys, p) THEN remove(fsys, p) ELSE fsys

\* ioHDF5(h5_path): opens the file at the path if there is one, keeping its
\* content, and creates an empty file otherwise.
OpenFile(fsys, p) == IF fsys[p].exists THEN fsys ELSE [fsys EXCEPT ![p] = EmptyFile]

\* The nodes of a tree in the order the writer creates them (a node before
\* its children, children in order), each with its path from the root.
RECURSIVE Flatten(_, _)
RECURSIVE FlattenAll(_, _)
Flatten(node, path) ==
    <<[path |-> path, kind |-> node.kind, attrs |-> node.attrs]>>
        \o FlattenAll(node.children, path)
FlattenAll(nodes, path) ==
    IF nodes = <<>> THEN <<>>
    ELSE Flatten(Head(nodes), Append(path, Head(nodes).name)) \o FlattenAll(Tail(nodes), path)

WriteList(tree) == Flatten(tree, <<>>)

AttrsOf(item) ==
    {[path |-> item.path, key |-> k, val |-> item.attrs[k]] : k \in DOMAIN item.attrs}

\* The file after the writer created the first k nodes of the list; an
\* attribute written again replaces the one of the same owner and key.
WritePrefix(file, wl, k) ==
    LET new == UNION {AttrsOf(wl[i]) : i \in 1..k}
    IN [exists |-> TRUE,
        objs |-> file.objs \cup {[path |-> wl[i].path, kind |-> wl[i].kind] : i \in 1..k},
        attrs |-> {a \in file.attrs :
                     ~\E b \in new : b.path = a.path /\ b.key = a.key} \cup new]

\* Creating node i fails because an object of that name is already there:
\* in the file, or created earlier in this pass.  The root always exists.
NameTaken(file, wl, i) ==
    /\ wl[i].path # <<>>
    /\ \/ \E o \in file.objs : o.path = wl[i].path
       \/ \E j \in 1..(i - 1) : wl[j].path = wl[i].path

\* The destination after writeData failed: a failed write leaves no
\* container file of the writer's making, so the file the writer created
\* on opening is gone; a file that was there before the writer opened is
\* as it was.
AfterFailedWrite(file) == IF file = EmptyFile THEN NoFile ELSE file

\* The handles writeData returns: the objects it created, in order.
RefsOf(wl) == [i \in 1..Len(wl) |-> wl[i].path]

\* The last component of an object's name; '' for the root.
Basename(path) == IF path = <<>> THEN "" ELSE path[Len(path)]

\* get_h5_obj_refs(obj_names, h5_refs): for each name in order, the handles
\* whose last name component is that name.
RECURSIVE get_h5_obj_refs(_, _)
get_h5_obj_refs(obj_names, refs) ==
    IF obj_names = <<>> THEN <<>>
    ELSE SelectSeq(refs, LAMBDA r : Basename(r) = Head(obj_names))
            \o get_h5_obj_refs(Tail(obj_names), refs)

\* link_h5_objects_as_attrs(h5_raw, refs): one reference-valued attribute on
\* h5_raw per handle, named after the handle's object.
link_h5_objects_as_attrs(file, h5_raw, refs) ==
    LET new == {[path |-> h5_raw, key |-> Basename(refs[i]), val |-> Ref(refs[i])] :
                   i \in 1..Len(refs)}
    IN [file EXCEPT !.attrs =
           {a \in @ : ~\E b \in new : b.path = a.path /\ b.key = a.key} \cup new]

(***************************************************************************)
(* Specification SpecMat: make_position_mat called on an arbitrary ordered *)
(* sequence of positive axis sizes.                                        *)
(***************************************************************************)
NotCalled == [called |-> FALSE]

IdleBuild ==
    /\ dimensions = <<1>> /\ steps = None /\ initial_values = None
    /\ labels = None /\ units = None
    /\ ds_pos = NotCalled /\ ds_spec = NotCalled

\* simple_write's fixed arguments in this model.
H5Path == "out.h5"
OtherPath == "out.h5.bak"
Paths == {H5Path, OtherPath}
DataName == "SPM_Data"
TranslatorName == "Generic"
DsMain == DatasetNode("Raw_Data")

NoFiles == [p \in Paths |-> NoFile]

IdleWrite ==
    /\ fs = NoFiles /\ pc = "idle" /\ calls = 0 /\ spm_data = MicroDataGroup("")
    /\ aux_dset_names = <<>> /\ hdf = "none" /\ h5_refs = <<>> /\ err = "none"
    /\ log = <<>> /\ prior = NoFile /\ stamp = [date |-> "", time |-> 0]
    /\ aux_dset_list = <<>> /\ parm_dict = None

IdleMat == num_steps = <<1>> /\ pos_mat = NotCalled

InitMat ==
    /\ num_steps \in SeqsOf(1..MatMaxSize, 1, MatMaxDims)
    /\ pos_mat = NotCalled
    /\ IdleBuild
    /\ IdleWrite

CallMakePositionMat ==
    /\ pos_mat = NotCalled
    /\ pos_mat' = [called |-> TRUE, ret |-> make_position_mat(num_steps)]
    /\ UNCHANGED <<num_steps, buildVars, writeVars>>

NextMat == CallMakePositionMat

SpecMat == InitMat /\ [][NextMat]_vars

(***************************************************************************)
(* C1                                                                      *)
(***************************************************************************)
\* The Python indices of the axes of size > 1, in original order.
ActiveAxes(ns) == SelectSeq([i \in 1..Len(ns) |-> i - 1], LAMBDA i : ns[i + 1] > 1)

\* C1: make_position_mat returns product(sizes) rows and one column per axis
\* of size > 1 in original axis order (one column when there is none); the
\* entry at row r of the column of axis i is
\* floor((r mod product(sizes[0..i])) / product(sizes[0..i-1])); all sizes 1
\* gives one row, one column holding 0.
C1_PositionMatClosedForm ==
    pos_mat.called =>
        LET m == pos_mat.ret
            act == ActiveAxes(num_steps)
        IN /\ NRows(m) = Prod(num_steps)
           /\ DOMAIN m = 0..(Prod(num_steps) - 1)
           /\ \A r \in DOMAIN m :
                 DOMAIN m[r] = 0..((IF Len(act) = 0 THEN 1 ELSE Len(act)) - 1)
           /\ \A j \in 1..Len(act) : \A r \in DOMAIN m :
                 m[r][j - 1] = (r % ProdPrefix(num_steps, act[j] + 1))
                                  \div ProdPrefix(num_steps, act[j])
           /\ (Len(act) = 0 => m = [r \in {0} |-> [c \in {0} |-> 0]])

\* A call on sizes mixing a singleton axis with two axes of size > 1.
C1_Witness ==
    /\ pos_mat.called
    /\ Len(num_steps) = 3
    /\ num_steps[1] = 3 /\ num_steps[2] = 1 /\ num_steps[3] = 2
    /\ pos_mat.ret[4][0] = 1 /\ pos_mat.ret[4][1] = 1

(***************************************************************************)
(* Specification SpecBuild: build_ind_val_dsets called in position mode    *)
(* and in spectroscopic mode on the same axis descriptors.  Sizes range    *)
(* over 1..MaxSize, so singleton axes are mixed with axes of size > 1;     *)
(* every optional per-axis array is absent or supplied with any length in  *)
(* 0..MaxDims, so both matching and mismatching lengths occur.             *)
(***************************************************************************)
LabelNames == <<"x", "y", "z", "u", "v", "w", "p", "q">>

\* Step sizes 2, 3, 4, ... and initial values 10, 20, 30, ...: distinct per axis.
StepArgs == {None} \cup {Some([i \in 1..n |-> i + 1]) : n \in 0..MaxDims}
InitialArgs == {None} \cup {Some([i \in 1..n |-> 10 * i]) : n \in 0..MaxDims}
\* Label lists with pairwise distinct labels, and with one label repeated.
LabelArgs ==
    {None} \cup {Some(SubSeq(LabelNames, 1, n)) : n \in 0..MaxDims}
           \cup {Some([i \in 1..n |-> "x"]) : n \in 2..MaxDims}
UnitArgs == {None} \cup {Some([i \in 1..n |-> "nm"]) : n \in 0..MaxDims}

InitBuild ==
    /\ dimensions \in SeqsOf(1..MaxSize, 1, MaxDims)
    /\ steps \in StepArgs
    /\ initial_values \in InitialArgs
    /\ labels \in LabelArgs
    /\ units \in UnitArgs
    /\ ds_pos = NotCalled
    /\ ds_spec = NotCalled
    /\ IdleMat
    /\ IdleWrite

CallBuildPosition ==
    /\ ds_pos = NotCalled
    /\ ds_pos' = build_ind_val_dsets(dimensions, FALSE, steps, initial_values, labels, units)
    /\ UNCHANGED <<dimensions, steps, initial_values, labels, units, ds_spec,
                   matVars, writeVars>>

CallBuildSpectral ==
    /\ ds_spec = NotCalled
    /\ ds_spec' = build_ind_val_dsets(dimensions, TRUE, steps, initial_values, labels, units)
    /\ UNCHANGED <<dimensions, steps, initial_values, labels, units, ds_pos,
                   matVars, writeVars>>

NextBuild == CallBuildPosition \/ CallBuildSpectral

SpecBuild == InitBuild /\ [][NextBuild]_vars

\* The call returned its pair of datasets.
Ok(res) == res.called /\ res.raised = "none"

\* The step and initial value the caller gave for the axis with Python index i.
StepGiven(i) == IF steps.given THEN steps.val[i + 1] ELSE 1
InitialGiven(i) == IF initial_values.given THEN initial_values.val[i + 1] ELSE 0

(***************************************************************************)
(* C2                                                                      *)
(***************************************************************************)
\* C2: for every accepted axis-descriptor list with an active axis, singleton
\* axes mixed in or not, the value dataset has the shape of the index dataset
\* (position mode shown; spectroscopic mode is its transpose) and its entry
\* for point r and active axis k is initial_value_k + index[r, k] * step_k,
\* with the initial value and step the caller gave for that same axis.
C2_ValuesFollowIndices ==
    (Ok(ds_pos) /\ NumActive(dimensions) >= 1) =>
        LET ind == ds_pos.ds_indices.data
            val == ds_pos.ds_values.data
            act == ActiveAxes(dimensions)
        IN /\ Shape(val) = Shape(ind)
           /\ \A k \in 1..Len(act) : \A r \in DOMAIN ind :
                 /\ (k - 1) \in DOMAIN val[r]
                 /\ val[r][k - 1] = InitialGiven(act[k]) + ind[r][k - 1] * StepGiven(act[k])

(***************************************************************************)
(* C3                                                                      *)
(***************************************************************************)
\* a is the transpose of b.
IsTransposeOf(a, b) ==
    /\ NRows(a) = NCols(b)
    /\ NCols(a) = NRows(b)
    /\ \A r \in DOMAIN b : \A c \in DOMAIN b[r] : a[c][r] = b[r][c]

\* C3: for identical axis descriptors (some axis of size > 1) the index and
\* value payloads returned
\* with is_spectral=True are exactly the transposes of those returned with
\* is_spectral=False, both payloads being [active_axes, points] against
\* [points, active_axes], and the datasets are named Spectroscopic_Indices /
\* Spectroscopic_Values against Position_Indices / Position_Values.
C3_SpectralIsTransposedPosition ==
    (ds_pos.called /\ ds_spec.called) =>
        /\ ds_spec.raised = ds_pos.raised
        /\ (Ok(ds_pos) /\ NumActive(dimensions) >= 1) =>
             /\ IsTransposeOf(ds_spec.ds_indices.data, ds_pos.ds_indices.data)
             /\ IsTransposeOf(ds_spec.ds_values.data, ds_pos.ds_values.data)
             /\ Shape(ds_pos.ds_indices.data)
                  = <<Prod(dimensions), SpatDims(dimensions)>>
             /\ Shape(ds_spec.ds_indices.data)
                  = <<SpatDims(dimensions), Prod(dimensions)>>
             /\ Shape(ds_pos.ds_values.data)
                  = <<Prod(dimensions), SpatDims(dimensions)>>
             /\ Shape(ds_spec.ds_values.data)
                  = <<SpatDims(dimensions), Prod(dimensions)>>
             /\ ds_spec.ds_indices.name = "Spectroscopic_Indices"
             /\ ds_spec.ds_values.name = "Spectroscopic_Values"
             /\ ds_pos.ds_indices.name = "Position_Indices"
             /\ ds_pos.ds_values.name = "Position_Values"

(***************************************************************************)
(* C4                                                                      *)
(***************************************************************************)
\* The rows and columns a (row_range, column_range) pair selects from m.
SlicedShape(m, pair) ==
    <<SliceCount(pair[1], NRows(m)), SliceCount(pair[2], NCols(m))>>

\* The index of axis i (Python index) at point r.
AxisIndexAt(i, r) ==
    (r % ProdPrefix(dimensions, i + 1)) \div ProdPrefix(dimensions, i)

DistinctLabels == \A i, j \in 1..Len(labels.val) : labels.val[i] = labels.val[j] => i = j

\* C4: for every axis label passed (labels pairwise distinct, some axis of
\* size > 1), the 'labels'
\* metadata holds a (row_range, column_range) pair for it, and applying the
\* pair to the full index matrix yields exactly one column with every row in
\* position mode, one row with every column in spectroscopic mode, holding
\* that axis's indices.
C4_LabelSlicesSelectTheirAxis ==
    /\ (Ok(ds_pos) /\ labels.given /\ DistinctLabels /\ NumActive(dimensions) >= 1) =>
          \A i \in 0..(Len(labels.val) - 1) :
             LET l == labels.val[i + 1]
                 m == ds_pos.ds_indices.data
                 sd == ds_pos.ds_indices.attrs.labels
             IN /\ l \in DOMAIN sd
                /\ ds_pos.ds_values.attrs.labels = sd
                /\ SlicedShape(m, sd[l]) = <<Prod(dimensions), 1>>
                /\ \A r \in 0..(Prod(dimensions) - 1) :
                      ApplySlices(m, sd[l])[r][0] = AxisIndexAt(i, r)
    /\ (Ok(ds_spec) /\ labels.given /\ DistinctLabels /\ NumActive(dimensions) >= 1) =>
          \A i \in 0..(Len(labels.val) - 1) :
             LET l == labels.val[i + 1]
                 m == ds_spec.ds_indices.data
                 sd == ds_spec.ds_indices.attrs.labels
             IN /\ l \in DOMAIN sd
                /\ ds_spec.ds_values.attrs.labels = sd
                /\ SlicedShape(m, sd[l]) = <<1, Prod(dimensions)>>
                /\ \A r \in 0..(Prod(dimensions) - 1) :
                      ApplySlices(m, sd[l])[0][r] = AxisIndexAt(i, r)

(***************************************************************************)
(* C5                                                                      *)
(***************************************************************************)
WrongLen(arg) == arg.given /\ Len(arg.val) # Len(dimensions)

LengthErrors == {"steps_len", "initial_values_len", "labels_len", "units_len"}

\* C5 as stated: whenever steps, initial_values, labels or units has a length
\* different from the number of dimensions, the call fails with a
\* length-mismatch error, returns no dataset, and has built no index matrix,
\* value matrix or dataset before raising.
C5_Original_RaisedBeforeAnyWork ==
    \A res \in {ds_pos, ds_spec} :
        (res.called /\ (WrongLen(steps) \/ WrongLen(initial_values)
                          \/ WrongLen(labels) \/ WrongLen(units))) =>
            /\ res.raised \in LengthErrors
            /\ res.built = {}

\* C5 as amended: a wrong length of any of the four makes the call fail and
\* return no dataset; for steps, initial_values and labels the
\* length-mismatch error is raised before anything is built; a wrong length
\* of units alone is detected only after the index matrix is built, after
\* the value matrix and both datasets are built too unless computing the
\* values failed first.
C5_LengthMismatchFails ==
    \A res \in {ds_pos, ds_spec} :
        res.called =>
            /\ (WrongLen(steps) \/ WrongLen(initial_values)
                  \/ WrongLen(labels) \/ WrongLen(units)) =>
                   /\ res.raised # "none"
                   /\ "ds_indices" \notin DOMAIN res
                   /\ "ds_values" \notin DOMAIN res
            /\ (WrongLen(steps) \/ WrongLen(initial_values) \/ WrongLen(labels)) =>
                   /\ res.raised \in LengthErrors \ {"units_len"}
                   /\ res.built = {}
            /\ (WrongLen(units) /\ ~WrongLen(steps) /\ ~WrongLen(initial_values)
                  /\ ~WrongLen(labels)) =>
                   \/ /\ res.raised = "units_len"
                      /\ res.built = {"indices", "values", "ds_indices", "ds_values"}
                   \/ /\ res.raised = "broadcast"
                      /\ res.built = {"indices"}

\* A call with only units of the wrong length fails after the datasets were built.
C5_Witness ==
    /\ ds_pos.called
    /\ WrongLen(units) /\ ~WrongLen(steps) /\ ~WrongLen(initial_values) /\ ~WrongLen(labels)
    /\ ds_pos.raised = "units_len"
    /\ "ds_values" \in ds_pos.built

(***************************************************************************)
(* Specification SpecWrite: simple_write called up to MaxCalls times on    *)
(* one destination path, which at first holds no file or a file written    *)
(* by someone else.  Each action is one stretch of the method between two  *)
(* calls into the writer; a call into the writer may fail, and the error   *)
(* leaves the method at once (the method has no try block).                *)
(***************************************************************************)
\* A file some other program left at the destination.
LegacyFile ==
    [exists |-> TRUE,
     objs |-> {[path |-> <<>>, kind |-> "group"], [path |-> <<"Legacy">>, kind |-> "dataset"]},
     attrs |-> {[path |-> <<>>, key |-> "owner", val |-> Str("legacy")]}]

\* What the caller may put into aux_dset_list: MicroDatasets and, being a
\* child add_children takes as well, a MicroDataGroup.
AuxPool ==
    {DatasetNode("Position_Indices"), DatasetNode("Position_Values"),
     DatasetNode("Spectroscopic_Indices"), MicroDataGroup("Aux_Group")}

\* Run parameters of the caller: none, or a dict over some of these keys.
ParmValues ==
    [instrument |-> Str("caller_instrument"),
     data_type |-> Str("caller_data_type"),
     translator |-> Str("caller_translator")]
ParmArgs ==
    {None} \cup {Some([k \in K |-> ParmValues[k]]) : K \in SUBSET DOMAIN ParmValues}

\* Readings of the clock (tm.strftime, tm.time).
Stamps == {[date |-> "2015_11_03", time |-> 1446563236],
           [date |-> "2015_11_04", time |-> 1446649636]}

InitWrite ==
    /\ fs \in {NoFiles, [NoFiles EXCEPT ![H5Path] = LegacyFile]}
    /\ aux_dset_list \in SeqsOf(AuxPool, 0, MaxAux)
    /\ parm_dict \in ParmArgs
    /\ pc = "idle" /\ calls = 0 /\ spm_data = MicroDataGroup("")
    /\ aux_dset_names = <<>> /\ hdf = "none" /\ h5_refs = <<>> /\ err = "none"
    /\ log = <<>> /\ prior = NoFile /\ stamp = [date |-> "", time |-> 0]
    /\ IdleMat
    /\ IdleBuild

\* Lines 94-112: the tree and the names of the auxiliary datasets.
Call ==
    /\ pc \in {"idle", "returned", "raised"}
    /\ calls < MaxCalls
    /\ calls' = calls + 1
    /\ \E st \in Stamps :
          /\ stamp' = st
          /\ spm_data' = SpmData(DataName, TranslatorName, DsMain, aux_dset_list, parm_dict, st)
    /\ aux_dset_names' = AuxDsetNames(aux_dset_list)
    /\ prior' = fs[H5Path]
    /\ hdf' = "none" /\ h5_refs' = <<>> /\ err' = "none" /\ log' = <<>>
    /\ pc' = "remove"
    /\ UNCHANGED <<fs, aux_dset_list, parm_dict, matVars, buildVars>>

\* Lines 114-115.
RemoveExisting ==
    /\ pc = "remove"
    /\ fs' = RemovePrior(fs, H5Path)
    /\ log' = IF fs' # fs THEN Append(log, "remove") ELSE log
    /\ pc' = "open"
    /\ UNCHANGED <<calls, spm_data, aux_dset_names, hdf, h5_refs, err, prior, stamp,
                   aux_dset_list, parm_dict, matVars, buildVars>>

\* Line 117.
OpenWriter ==
    /\ pc = "open"
    /\ fs' = OpenFile(fs, H5Path)
    /\ hdf' = "open"
    /\ log' = Append(log, "open")
    /\ pc' = "write"
    /\ UNCHANGED <<calls, spm_data, aux_dset_names, h5_refs, err, prior, stamp,
                   aux_dset_list, parm_dict, matVars, buildVars>>

\* Line 117, the writer failing to open: no file is created.
OpenWriterFails ==
    /\ pc = "open"
    /\ log' = Append(log, "open")
    /\ err' = "OpenError"
    /\ pc' = "raised"
    /\ UNCHANGED <<fs, calls, spm_data, aux_dset_names, hdf, h5_refs, prior, stamp,
                   aux_dset_list, parm_dict, matVars, buildVars>>

\* Line 118.
WriteData ==
    /\ pc = "write"
    /\ LET wl == WriteList(spm_data)
       IN /\ \A i \in 1..Len(wl) : ~NameTaken(fs[H5Path], wl, i)
          /\ fs' = [fs EXCEPT ![H5Path] = WritePrefix(@, wl, Len(wl))]
          /\ h5_refs' = RefsOf(wl)
    /\ log' = Append(log, "writeData")
    /\ pc' = "link"
    /\ UNCHANGED <<calls, spm_data, aux_dset_names, hdf, err, prior, stamp,
                   aux_dset_list, parm_dict, matVars, buildVars>>

\* Line 118, the writer failing mid-write: at a node whose name is taken,
\* or anywhere (disk, permission).  No container file is left of the write.
WriteDataFails ==
    /\ pc = "write"
    /\ fs' = [fs EXCEPT ![H5Path] = AfterFailedWrite(@)]
    /\ log' = Append(log, "writeData")
    /\ err' = "WriteError"
    /\ pc' = "raised"
    /\ UNCHANGED <<calls, spm_data, aux_dset_names, hdf, h5_refs, prior, stamp,
                   aux_dset_list, parm_dict, matVars, buildVars>>

\* Lines 119-120.
ResolveAndLink ==
    /\ pc = "link"
    /\ LET main_refs == get_h5_obj_refs(<<DsMain.name>>, h5_refs)
       IN IF main_refs = <<>>
          THEN /\ err' = "IndexError"
               /\ pc' = "raised"
               /\ log' = Append(log, "get_h5_obj_refs")
               /\ fs' = fs
          ELSE /\ fs' = [fs EXCEPT ![H5Path] =
                           link_h5_objects_as_attrs(@, main_refs[1],
                               get_h5_obj_refs(aux_dset_names, h5_refs))]
               /\ log' = log \o <<"get_h5_obj_refs", "get_h5_obj_refs",
                                  "link_h5_objects_as_attrs">>
               /\ err' = err
               /\ pc' = "close"
    /\ UNCHANGED <<calls, spm_data, aux_dset_names, hdf, h5_refs, prior, stamp,
                   aux_dset_list, parm_dict, matVars, buildVars>>

\* Line 120, the writer failing to attach the references.
LinkFails ==
    /\ pc = "link"
    /\ log' = log \o <<"get_h5_obj_refs", "get_h5_obj_refs", "link_h5_objects_as_attrs">>
    /\ err' = "LinkError"
    /\ pc' = "raised"
    /\ UNCHANGED <<fs, calls, spm_data, aux_dset_names, hdf, h5_refs, prior, stamp,
                   aux_dset_list, parm_dict, matVars, buildVars>>

\* Lines 121-122.
CloseAndReturn ==
    /\ pc = "close"
    /\ hdf' = "closed"
    /\ log' = Append(log, "close")
    /\ pc' = "returned"
    /\ UNCHANGED <<fs, calls, spm_data, aux_dset_names, h5_refs, err, prior, stamp,
                   aux_dset_list, parm_dict, matVars, buildVars>>

NextWrite ==
    \/ Call
    \/ RemoveExisting
    \/ OpenWriter
    \/ OpenWriterFails
    \/ WriteData
    \/ WriteDataFails
    \/ ResolveAndLink
    \/ LinkFails
    \/ CloseAndReturn

SpecWrite == InitWrite /\ [][NextWrite]_vars

(***************************************************************************)
(* What the claims speak of.                                               *)
(***************************************************************************)
MeasPath == <<"Measurement_000">>
ChanPath == <<"Measurement_000", "Channel_000">>
MainPath == <<"Measurement_000", "Channel_000", "Raw_Data">>

InLog(e) == \E i \in 1..Len(log) : log[i] = e
Before(a, b) == \E i, j \in 1..Len(log) : i < j /\ log[i] = a /\ log[j] = b
TimesInLog(e) == Cardinality({i \in 1..Len(log) : log[i] = e})

\* The entries of aux_dset_list, all of them placed in Channel_000.
PlacedAux == {aux_dset_list[i] : i \in 1..Len(aux_dset_list)}

\* The objects of the newly assembled tree.
NewObjs ==
    {[path |-> <<>>, kind |-> "group"], [path |-> MeasPath, kind |-> "group"],
     [path |-> ChanPath, kind |-> "group"], [path |-> MainPath, kind |-> "dataset"]}
    \cup {[path |-> Append(ChanPath, a.name), kind |-> a.kind] : a \in PlacedAux}

\* An attribute of the newly assembled tree or a link set on the main dataset.
IsNewAttr(a) ==
    \/ /\ a.path = <<>>
       /\ a.key \in DOMAIN spm_data.attrs
       /\ a.val = spm_data.attrs[a.key]
    \/ /\ a.path = MeasPath
       /\ parm_dict.given
       /\ a.key \in DOMAIN parm_dict.val
       /\ a.val = parm_dict.val[a.key]
    \/ /\ a.path = MainPath
       /\ a.val = Ref(Append(ChanPath, a.key))
       /\ \E x \in PlacedAux : x.name = a.key

\* The reference-valued attribute on the main dataset that leads to x.
LinkTo(x) == [path |-> MainPath, key |-> x.name, val |-> Ref(Append(ChanPath, x.name))]

\* The writer failed mid-write and the error left simple_write.
WriterFailed == pc = "raised" /\ err = "WriteError"

(***************************************************************************)
(* C6                                                                      *)
(***************************************************************************)
\* C6: when simple_write is called with a file already at the destination
\* and returns normally, the file there holds exactly the newly assembled
\* tree (root, Measurement_000, Channel_000, main and auxiliary datasets)
\* and nothing of the prior file; the prior file was deleted before the
\* writer was opened, and no copy of it was kept at another path.
C6_PriorFileReplaced ==
    (pc = "returned" /\ prior.exists) =>
        /\ fs[H5Path].exists
        /\ fs[H5Path].objs = NewObjs
        /\ \A a \in fs[H5Path].attrs : IsNewAttr(a)
        /\ \A k \in DOMAIN spm_data.attrs :
              [path |-> <<>>, key |-> k, val |-> spm_data.attrs[k]] \in fs[H5Path].attrs
        /\ Before("remove", "open")
        /\ ~Before("open", "remove")
        /\ fs[OtherPath] = NoFile

\* A call that found the other program's file and returned.
C6_Witness ==
    /\ pc = "returned"
    /\ prior = LegacyFile
    /\ Len(aux_dset_list) = 2
    /\ fs[H5Path].exists

(***************************************************************************)
(* C7                                                                      *)
(***************************************************************************)
\* C7 as stated: after every call that returns normally the main dataset
\* carries a reference-valued attribute for every entry of the auxiliary
\* list that was placed in Channel_000; the links were set after the tree
\* was written and before the writer was closed.
C7_Original_EveryPlacedEntryLinked ==
    pc = "returned" =>
        /\ \A x \in PlacedAux : LinkTo(x) \in fs[H5Path].attrs
        /\ Before("writeData", "link_h5_objects_as_attrs")
        /\ Before("link_h5_objects_as_attrs", "close")

\* C7 as amended: after every call that returns normally the main dataset
\* carries a reference-valued attribute for every MicroDataset entry of the
\* auxiliary list, each naming and leading to that dataset in Channel_000,
\* and carries no other; entries that are groups are written but not linked.
\* The links were set after the tree was written and before the close.
C7_EveryAuxDatasetLinked ==
    pc = "returned" =>
        /\ \A x \in PlacedAux :
              x.kind = "dataset" =>
                 /\ LinkTo(x) \in fs[H5Path].attrs
                 /\ [path |-> Append(ChanPath, x.name), kind |-> "dataset"] \in fs[H5Path].objs
        /\ \A x \in PlacedAux :
              [path |-> Append(ChanPath, x.name), kind |-> x.kind] \in fs[H5Path].objs
        /\ \A a \in fs[H5Path].attrs :
              a.path = MainPath => \E x \in PlacedAux : x.kind = "dataset" /\ a = LinkTo(x)
        /\ Before("writeData", "link_h5_objects_as_attrs")
        /\ Before("link_h5_objects_as_attrs", "close")
        /\ ~Before("close", "link_h5_objects_as_attrs")
        /\ ~Before("link_h5_objects_as_attrs", "writeData")

\* A call that returned with a dataset and a group in the auxiliary list:
\* the dataset is linked, the group is in the file without a link.
C7_Witness ==
    /\ pc = "returned"
    /\ aux_dset_list = <<DatasetNode("Position_Indices"), MicroDataGroup("Aux_Group")>>
    /\ LinkTo(DatasetNode("Position_Indices")) \in fs[H5Path].attrs
    /\ [path |-> Append(ChanPath, "Aux_Group"), kind |-> "group"] \in fs[H5Path].objs
    /\ LinkTo(MicroDataGroup("Aux_Group")) \notin fs[H5Path].attrs

(***************************************************************************)
(* C8                                                                      *)
(***************************************************************************)
DefaultKeys == DOMAIN generate_dummy_main_parms(stamp)

\* C8 as stated: the root node handed to the writer has the generated
\* defaults as attributes, every field also present in the caller's run
\* parameters taking the caller's value, except data_type and translator,
\* which equal the supplied names.
C8_Original_CallerOverridesDefaults ==
    InLog("writeData") =>
        /\ \A k \in DefaultKeys :
              spm_data.attrs[k] =
                 IF parm_dict.given /\ k \in DOMAIN parm_dict.val
                 THEN parm_dict.val[k]
                 ELSE generate_dummy_main_parms(stamp)[k]
        /\ spm_data.attrs["data_type"] = Str(DataName)
        /\ spm_data.attrs["translator"] = Str(TranslatorName)

\* C8 as amended: the root node handed to the writer has as attributes the
\* freshly generated defaults, unchanged whatever the caller's run
\* parameters hold, plus data_type and translator equal to the supplied
\* names; the run parameters become the attributes of Measurement_000.
C8_RootAttrsIgnoreRunParms ==
    InLog("writeData") =>
        /\ DOMAIN spm_data.attrs = DefaultKeys \cup {"data_type", "translator"}
        /\ \A k \in DefaultKeys : spm_data.attrs[k] = generate_dummy_main_parms(stamp)[k]
        /\ spm_data.attrs["data_type"] = Str(DataName)
        /\ spm_data.attrs["translator"] = Str(TranslatorName)
        /\ spm_data.name = ""
        /\ Len(spm_data.children) = 1
        /\ spm_data.children[1].name = "Measurement_000"
        /\ spm_data.children[1].attrs = (IF parm_dict.given THEN parm_dict.val ELSE EmptyDict)

\* The tree was handed to the writer with run parameters naming a default
\* field and both forced fields.
C8_Witness ==
    /\ InLog("writeData")
    /\ parm_dict.given
    /\ DOMAIN parm_dict.val = {"instrument", "data_type", "translator"}
    /\ spm_data.attrs["instrument"] = Str("cypher_west")
    /\ spm_data.children[1].attrs["instrument"] = Str("caller_instrument")

(***************************************************************************)
(* C9                                                                      *)
(***************************************************************************)
NoRetry ==
    \A e \in {"remove", "open", "writeData", "link_h5_objects_as_attrs", "close"} :
        TimesInLog(e) <= 1

C10_WriterClosedOnEveryExit ==
    (pc \in {"returned", "raised"} /\ hdf # "none") => hdf = "closed"

====
